---- MODULE Spec2Model ----
(***************************************************************************)
(* Connect Four: the game logic (logic.py, win_detection.py) and the part  *)
(* of the tkinter front end that drives it (graphics.py).                  *)
(*                                                                         *)
(* Rows and columns are indexed from 0 as in the source; row 0 is the      *)
(* bottom row.  A Python str is a sequence of one-character strings, a     *)
(* Python list is a sequence, and a list-or-None result that is never an   *)
(* empty list is the sequence with None == <<>>.                           *)
(***************************************************************************)
EXTENDS Integers, Sequences, FiniteSets, TLC

BOARD_ROWS == 6
BOARD_COLUMNS == 7
COMBINATION_LENGTH == 4
NO_ID == 0

\* The number of moves of one game that may depart from the game's script.
MaxFree == 1

\* The ids a Player is constructed with are -MaxId .. MaxId.
MaxId == 12

\* The number of pieces on the board of each of two coexisting instances.
MaxTwoPieces == 1

None == <<>>

Rows == 0 .. (BOARD_ROWS - 1)
Columns == 0 .. (BOARD_COLUMNS - 1)

(***************************************************************************)
(* Python built-ins used by the source.                                    *)
(***************************************************************************)
DigitChars == <<"0", "1", "2", "3", "4", "5", "6", "7", "8", "9">>

\* str(n) for an int n >= 0: its decimal digits.
RECURSIVE Str(_)
Str(n) ==
    IF n < 10 THEN << DigitChars[n + 1] >>
    ELSE Str(n \div 10) \o << DigitChars[(n % 10) + 1] >>

\* s * n for a str s.
RECURSIVE StrTimes(_, _)
StrTimes(s, n) == IF n <= 0 THEN << >> ELSE s \o StrTimes(s, n - 1)

\* "".join(parts) for a list of str.
RECURSIVE Join(_)
Join(parts) == IF parts = << >> THEN << >> ELSE Head(parts) \o Join(Tail(parts))

\* Whether sub occurs in s at the 0-based index i.
MatchesAt(s, sub, i) ==
    /\ i + Len(sub) <= Len(s)
    /\ \A k \in 1 .. Len(sub) : s[i + k] = sub[k]

\* s.rfind(sub): the highest 0-based index where sub occurs in s, or -1.
RFind(s, sub) ==
    LET hits == { i \in 0 .. Len(s) : MatchesAt(s, sub, i) }
    IN  IF hits = {} THEN -1
        ELSE CHOOSE i \in hits : \A j \in hits : j <= i

\* s.find(sub): the lowest 0-based index where sub occurs in s, or -1.
Find(s, sub) ==
    LET hits == { i \in 0 .. Len(s) : MatchesAt(s, sub, i) }
    IN  IF hits = {} THEN -1
        ELSE CHOOSE i \in hits : \A j \in hits : i <= j

\* next(iterator over a cycle of n items): the 0-based index after idx.
CycleAdvance(idx, n) == (idx + 1) % n

(***************************************************************************)
(* Player, Square, PLAYERS.                                                *)
(***************************************************************************)
ValueError == [error |-> "ValueError"]

\* A variant that accepts the id 0.
Player_from_zero(id, colour) ==
    IF id < 0 \/ id > 9 THEN ValueError
    ELSE [id |-> id, colour |-> colour,
          winning_combination |-> StrTimes(Str(id), COMBINATION_LENGTH)]

Player(id, colour) ==
    IF id < 1 \/ id > 9 THEN ValueError
    ELSE [id |-> id, colour |-> colour,
          winning_combination |-> StrTimes(Str(id), COMBINATION_LENGTH)]

Square(row, column, player_id) ==
    [row |-> row, column |-> column, player_id |-> player_id]

PLAYERS == << Player(1, "blue"), Player(2, "red") >>

(***************************************************************************)
(* The state of a Logic instance.  current_squares[row][column] is the     *)
(* player_id of the square at (row, column); players is the position of    *)
(* the cycle iterator, the 0-based index in PLAYERS of the item the next   *)
(* next() yields.                                                          *)
(***************************************************************************)
VARIABLES current_squares, players, current_player, has_winner, winning_coordinates

\* The caller's game in progress: script is the list of the columns played
\* as long as they are the start of a script of Games (and << >> afterwards),
\* free the number of moves since the game departed from the scripts, chosen
\* the column of the last move (-1 before the first move).
VARIABLES script, free, chosen

\* A second Logic instance of the same process, as one value.
VARIABLE other_logic

\* A call of a function that belongs to no Logic instance: the function's
\* name, its arguments, and its result once it has returned.
VARIABLE call

\* The buttons of the board of a Graphics window: buttons[row][column] is the
\* configuration of the button gridded at (row, column), row 0 at the top.
VARIABLE buttons

\* The value of a widget option that was not given when the widget was made.
TK_DEFAULT == "default"

\* The text of a button that displays a piece, a filled circle.
PIECE == "O"

\* Graphics._create_board: one button for each place of the grid, made with
\* text "" and the other options at their defaults.
create_board ==
    [row \in 0 .. BOARD_ROWS - 1 |-> [column \in 0 .. BOARD_COLUMNS - 1 |->
        [text |-> "", fg |-> TK_DEFAULT, default |-> TK_DEFAULT,
         highlightcolor |-> TK_DEFAULT, highlightthickness |-> TK_DEFAULT]]]

logic_vars == << current_squares, players, current_player, has_winner, winning_coordinates >>
vars ==
    << current_squares, players, current_player, has_winner, winning_coordinates,
       script, free, chosen, other_logic, call, buttons >>

\* The Logic instance as one value.
Self ==
    [current_squares |-> current_squares, players |-> players,
     current_player |-> current_player, has_winner |-> has_winner,
     winning_coordinates |-> winning_coordinates]

\* The Logic instance becomes the value logic.
Becomes(logic) ==
    /\ current_squares' = logic.current_squares
    /\ players' = logic.players
    /\ current_player' = logic.current_player
    /\ has_winner' = logic.has_winner
    /\ winning_coordinates' = logic.winning_coordinates

initialize_board == [row \in Rows |-> [column \in Columns |-> NO_ID]]

\* A variant whose first player is the last entry of PLAYERS.
Logic_init_starting_with_last_player ==
    [current_squares |-> initialize_board,
     players |-> CycleAdvance(Len(PLAYERS) - 1, Len(PLAYERS)),
     current_player |-> PLAYERS[Len(PLAYERS)],
     has_winner |-> FALSE,
     winning_coordinates |-> << >>]

\* Logic(): the cycle is created at index 0 and current_player takes its
\* first item.
Logic_init ==
    [current_squares |-> initialize_board,
     players |-> CycleAdvance(0, Len(PLAYERS)),
     current_player |-> PLAYERS[0 + 1],
     has_winner |-> FALSE,
     winning_coordinates |-> << >>]

(***************************************************************************)
(* Queries.                                                                *)
(***************************************************************************)
\* [row[column] for row in squares], as the list of the squares' ids.
column_squares(squares, column) == [i \in 1 .. BOARD_ROWS |-> squares[i - 1][column]]

\* A variant with the test inverted: the first square that is not empty.
get_first_occupied_square_in_column(squares, column) ==
    LET col == column_squares(squares, column)
        occupied == { i \in 1 .. Len(col) : col[i] # NO_ID }
    IN  IF occupied = {} THEN None
        ELSE LET first == CHOOSE i \in occupied : \A j \in occupied : i <= j
             IN  Square(first - 1, column, col[first])

\* A variant that searches the column from the top: the highest empty square.
get_first_empty_square_from_top(squares, column) ==
    LET col == column_squares(squares, column)
        empties == { i \in 1 .. Len(col) : col[i] = NO_ID }
    IN  IF empties = {} THEN None
        ELSE LET last == CHOOSE i \in empties : \A j \in empties : j <= i
             IN  Square(last - 1, column, col[last])

get_first_empty_square_in_column(squares, column) ==
    LET col == column_squares(squares, column)
        empties == { i \in 1 .. Len(col) : col[i] = NO_ID }
    IN  IF empties = {} THEN None
        ELSE LET first == CHOOSE i \in empties : \A j \in empties : i <= j
             IN  Square(first - 1, column, col[first])

\* A variant that forgets that a won game is over.
is_valid_move_ignoring_winner(squares, winner, selected_column) ==
    get_first_empty_square_in_column(squares, selected_column) # None

\* A variant that asks whether the game is tied where it should ask whether
\* it is won.
is_valid_move_until_tied(squares, winner, selected_column) ==
    LET column_has_empty_square == get_first_empty_square_in_column(squares, selected_column) # None
        top_row_has_empty_square ==
            \E i \in 1 .. BOARD_COLUMNS : squares[BOARD_ROWS - 1][i - 1] = NO_ID
    IN  column_has_empty_square /\ top_row_has_empty_square

is_valid_move(squares, winner, selected_column) ==
    LET column_has_empty_square == get_first_empty_square_in_column(squares, selected_column) # None
        game_is_ongoing == ~winner
    IN  column_has_empty_square /\ game_is_ongoing

\* A variant that reads the bottom row instead of the top row.
is_tied_reading_bottom_row(squares, winner) ==
    LET no_winner == ~winner
        bottom_row_list == [i \in 1 .. BOARD_COLUMNS |-> squares[0][i - 1]]
        bottom_row_string == Join([i \in 1 .. Len(bottom_row_list) |-> Str(bottom_row_list[i])])
        bottom_row_is_full == Find(bottom_row_string, Str(NO_ID)) = -1
    IN  no_winner /\ bottom_row_is_full

\* A variant that looks at the first character of the top row only.
is_tied_reading_first_column(squares, winner) ==
    LET no_winner == ~winner
        top_row_list == [i \in 1 .. BOARD_COLUMNS |-> squares[BOARD_ROWS - 1][i - 1]]
        top_row_string == Join([i \in 1 .. Len(top_row_list) |-> Str(top_row_list[i])])
        top_row_is_full == Find(top_row_string, Str(NO_ID)) # 0
    IN  no_winner /\ top_row_is_full

is_tied(squares, winner) ==
    LET no_winner == ~winner
        top_row_list == [i \in 1 .. BOARD_COLUMNS |-> squares[BOARD_ROWS - 1][i - 1]]
        top_row_string == Join([i \in 1 .. Len(top_row_list) |-> Str(top_row_list[i])])
        top_row_is_full == Find(top_row_string, Str(NO_ID)) = -1
    IN  no_winner /\ top_row_is_full

(***************************************************************************)
(* Win detection.  Every scan reads the board of the Logic instance it is  *)
(* given (its squares) and the winning_combination of its current_player.  *)
(* detect_win_in_row of win_detection.py reads the board under the name    *)
(* current_squares; logic.py holds that board as _current_squares.         *)
(***************************************************************************)
\* "".join(str(id) for id in ids)
AsString(ids) == Join([i \in 1 .. Len(ids) |-> Str(ids[i])])

\* A variant whose coordinates start one column after the match.
detect_win_in_row_shifted(squares, player, row) ==
    LET row_squares == [i \in 1 .. BOARD_COLUMNS |-> squares[row][i - 1]]
        row_string == AsString(row_squares)
        win_start_column == Find(row_string, player.winning_combination)
    IN  IF win_start_column >= 0
        THEN [k \in 1 .. COMBINATION_LENGTH |-> << row, win_start_column + k >>]
        ELSE None

\* A variant that lists the coordinates from the last column to the first.
detect_win_in_row_descending_columns(squares, player, row) ==
    LET row_squares == [i \in 1 .. BOARD_COLUMNS |-> squares[row][i - 1]]
        row_string == AsString(row_squares)
        win_start_column == Find(row_string, player.winning_combination)
    IN  IF win_start_column >= 0
        THEN [k \in 1 .. COMBINATION_LENGTH |->
                << row, win_start_column + (COMBINATION_LENGTH - k) >>]
        ELSE None

detect_win_in_row(squares, player, row) ==
    LET row_squares == [i \in 1 .. BOARD_COLUMNS |-> squares[row][i - 1]]
        row_string == AsString(row_squares)
        win_start_column == Find(row_string, player.winning_combination)
    IN  IF win_start_column >= 0
        THEN [k \in 1 .. COMBINATION_LENGTH |-> << row, win_start_column + (k - 1) >>]
        ELSE None

\* A variant that writes each coordinate as (column, row).
check_for_win_in_column_transposed(squares, player, column) ==
    LET column_as_string == AsString(column_squares(squares, column))
        combination_start_row == Find(column_as_string, player.winning_combination)
    IN  IF combination_start_row >= 0
        THEN [k \in 1 .. COMBINATION_LENGTH |-> << column, combination_start_row + (k - 1) >>]
        ELSE None

\* A variant that lists the 4 lowest squares of the column whatever the row
\* the match starts in.
check_for_win_in_column_from_bottom(squares, player, column) ==
    LET column_as_string == AsString(column_squares(squares, column))
        combination_start_row == Find(column_as_string, player.winning_combination)
    IN  IF combination_start_row >= 0
        THEN [k \in 1 .. COMBINATION_LENGTH |-> << k - 1, column >>]
        ELSE None

check_for_win_in_column(squares, player, column) ==
    LET column_as_string == AsString(column_squares(squares, column))
        combination_start_row == Find(column_as_string, player.winning_combination)
    IN  IF combination_start_row >= 0
        THEN [k \in 1 .. COMBINATION_LENGTH |-> << combination_start_row + (k - 1), column >>]
        ELSE None

RECURSIVE get_ascending_diagonal_start_coordinates(_, _)
get_ascending_diagonal_start_coordinates(row, column) ==
    IF row # 0 /\ column > 0
    THEN get_ascending_diagonal_start_coordinates(row - 1, column - 1)
    ELSE << row, column >>

\* min(a, b)
Min(a, b) == IF b < a THEN b ELSE a

\* A variant that forgets the right edge of the board.
ascending_diagonal_length_by_rows(diagonal_start_coordinates) ==
    BOARD_ROWS - diagonal_start_coordinates[1]

\* diagonal_length of the scan of the ascending diagonal.
ascending_diagonal_length(diagonal_start_coordinates) ==
    Min(BOARD_ROWS - diagonal_start_coordinates[1], BOARD_COLUMNS - diagonal_start_coordinates[2])

\* The [row][column] indices the loop of the scan reads, in its order.
ascending_diagonal_indices(diagonal_start_coordinates) ==
    [k \in 1 .. ascending_diagonal_length(diagonal_start_coordinates) |->
        << diagonal_start_coordinates[1] + (k - 1), diagonal_start_coordinates[2] + (k - 1) >>]

\* A variant that counts the offset of the match from (0, 0) instead of from
\* the start of the diagonal.
check_for_win_in_ascending_diagonal_from_corner(squares, player, row, column) ==
    LET diagonal_start_coordinates == get_ascending_diagonal_start_coordinates(row, column)
        diagonal_length == Min(BOARD_ROWS - diagonal_start_coordinates[1],
                               BOARD_COLUMNS - diagonal_start_coordinates[2])
        diagonal_squares ==
            [k \in 1 .. diagonal_length |->
                squares[diagonal_start_coordinates[1] + (k - 1)][diagonal_start_coordinates[2] + (k - 1)]]
        diagonal_as_string == AsString(diagonal_squares)
        combination_start_offset == Find(diagonal_as_string, player.winning_combination)
    IN  IF combination_start_offset >= 0
        THEN [k \in 1 .. COMBINATION_LENGTH |->
                << combination_start_offset + (k - 1), combination_start_offset + (k - 1) >>]
        ELSE None

check_for_win_in_ascending_diagonal(squares, player, row, column) ==
    LET diagonal_start_coordinates == get_ascending_diagonal_start_coordinates(row, column)
        diagonal_length == ascending_diagonal_length(diagonal_start_coordinates)
        diagonal_indices == ascending_diagonal_indices(diagonal_start_coordinates)
        diagonal_squares ==
            [k \in 1 .. diagonal_length |-> squares[diagonal_indices[k][1]][diagonal_indices[k][2]]]
        diagonal_as_string == AsString(diagonal_squares)
        combination_start_offset == Find(diagonal_as_string, player.winning_combination)
    IN  IF combination_start_offset >= 0
        THEN [k \in 1 .. COMBINATION_LENGTH |->
                << diagonal_start_coordinates[1] + combination_start_offset + (k - 1),
                   diagonal_start_coordinates[2] + combination_start_offset + (k - 1) >>]
        ELSE None

RECURSIVE get_descending_diagonal_start_coordinates(_, _)
get_descending_diagonal_start_coordinates(row, column) ==
    IF row < BOARD_ROWS - 1 /\ column > 0
    THEN get_descending_diagonal_start_coordinates(row + 1, column - 1)
    ELSE << row, column >>

\* A variant that forgets the right edge of the board.
descending_diagonal_length_by_rows(diagonal_start_coordinates) ==
    diagonal_start_coordinates[1] + 1

\* diagonal_length of the scan of the descending diagonal.
descending_diagonal_length(diagonal_start_coordinates) ==
    Min(diagonal_start_coordinates[1] + 1, BOARD_COLUMNS - diagonal_start_coordinates[2])

\* The [row][column] indices the loop of the scan reads, in its order.
descending_diagonal_indices(diagonal_start_coordinates) ==
    [k \in 1 .. descending_diagonal_length(diagonal_start_coordinates) |->
        << diagonal_start_coordinates[1] - (k - 1), diagonal_start_coordinates[2] + (k - 1) >>]

\* A variant whose coordinates go up the board from the match, as on an
\* ascending diagonal.
check_for_win_in_descending_diagonal_rows_increasing(squares, player, row, column) ==
    LET diagonal_start_coordinates == get_descending_diagonal_start_coordinates(row, column)
        diagonal_length == Min(diagonal_start_coordinates[1] + 1,
                               BOARD_COLUMNS - diagonal_start_coordinates[2])
        diagonal_squares ==
            [k \in 1 .. diagonal_length |->
                squares[diagonal_start_coordinates[1] - (k - 1)][diagonal_start_coordinates[2] + (k - 1)]]
        diagonal_as_string == AsString(diagonal_squares)
        combination_start_offset == Find(diagonal_as_string, player.winning_combination)
    IN  IF combination_start_offset >= 0
        THEN [k \in 1 .. COMBINATION_LENGTH |->
                << diagonal_start_coordinates[1] - combination_start_offset + (k - 1),
                   diagonal_start_coordinates[2] + combination_start_offset + (k - 1) >>]
        ELSE None

check_for_win_in_descending_diagonal(squares, player, row, column) ==
    LET diagonal_start_coordinates == get_descending_diagonal_start_coordinates(row, column)
        diagonal_length == descending_diagonal_length(diagonal_start_coordinates)
        diagonal_indices == descending_diagonal_indices(diagonal_start_coordinates)
        diagonal_squares ==
            [k \in 1 .. diagonal_length |-> squares[diagonal_indices[k][1]][diagonal_indices[k][2]]]
        diagonal_as_string == AsString(diagonal_squares)
        combination_start_offset == Find(diagonal_as_string, player.winning_combination)
    IN  IF combination_start_offset >= 0
        THEN [k \in 1 .. COMBINATION_LENGTH |->
                << diagonal_start_coordinates[1] - combination_start_offset - (k - 1),
                   diagonal_start_coordinates[2] + combination_start_offset + (k - 1) >>]
        ELSE None

\* A variant that puts the piece one row above the square, where there is one.
place_piece_one_row_up(squares, square, id) ==
    [squares EXCEPT ![IF square.row + 1 < BOARD_ROWS THEN square.row + 1 ELSE square.row]
                     [square.column] = id]

\* The board after the piece of the player with this id is put in a square.
place_piece(squares, square, id) ==
    [squares EXCEPT ![square.row][square.column] = id]

\* A variant that leaves out the scan of the descending diagonal.
detect_win_without_descending(squares, player, actual_square) ==
    LET in_row == detect_win_in_row(squares, player, actual_square.row)
        in_column == check_for_win_in_column(squares, player, actual_square.column)
        in_ascending ==
            check_for_win_in_ascending_diagonal(squares, player, actual_square.row, actual_square.column)
    IN  IF in_row # None THEN in_row
        ELSE IF in_column # None THEN in_column
        ELSE in_ascending

\* A variant that scans the column before the row.
detect_win_column_first(squares, player, actual_square) ==
    LET in_row == detect_win_in_row(squares, player, actual_square.row)
        in_column == check_for_win_in_column(squares, player, actual_square.column)
        in_ascending ==
            check_for_win_in_ascending_diagonal(squares, player, actual_square.row, actual_square.column)
        in_descending ==
            check_for_win_in_descending_diagonal(squares, player, actual_square.row, actual_square.column)
    IN  IF in_column # None THEN in_column
        ELSE IF in_row # None THEN in_row
        ELSE IF in_ascending # None THEN in_ascending
        ELSE in_descending

\* The result of the four scans of handle_move, in its order, on the board
\* after the piece has been placed in actual_square.
detect_win(squares, player, actual_square) ==
    LET in_row == detect_win_in_row(squares, player, actual_square.row)
        in_column == check_for_win_in_column(squares, player, actual_square.column)
        in_ascending ==
            check_for_win_in_ascending_diagonal(squares, player, actual_square.row, actual_square.column)
        in_descending ==
            check_for_win_in_descending_diagonal(squares, player, actual_square.row, actual_square.column)
    IN  IF in_row # None THEN in_row
        ELSE IF in_column # None THEN in_column
        ELSE IF in_ascending # None THEN in_ascending
        ELSE in_descending

(***************************************************************************)
(* Commands of Logic, as functions from the instance to the instance.      *)
(***************************************************************************)
\* A variant that also restarts the cycle of players.
reset_game_restarting_rotation(logic) ==
    [logic EXCEPT !.current_squares = initialize_board,
                  !.has_winner = FALSE,
                  !.winning_coordinates = << >>,
                  !.current_player = PLAYERS[0 + 1],
                  !.players = CycleAdvance(0, Len(PLAYERS))]

\* A variant that leaves the winning coordinates of the last game in place.
reset_game_keeping_coordinates(logic) ==
    [logic EXCEPT !.current_squares = initialize_board,
                  !.has_winner = FALSE]

reset_game(logic) ==
    [logic EXCEPT !.current_squares = initialize_board,
                  !.has_winner = FALSE,
                  !.winning_coordinates = << >>]

\* A variant that restarts the cycle at every call.
switch_to_first_player(logic) ==
    [logic EXCEPT !.current_player = PLAYERS[0 + 1],
                  !.players = CycleAdvance(0, Len(PLAYERS))]

switch_to_next_player(logic) ==
    [logic EXCEPT !.current_player = PLAYERS[logic.players + 1],
                  !.players = CycleAdvance(logic.players, Len(PLAYERS))]

\* Whether handle_move raises: the lookup returned None and line 313 reads
\* actual_square.row, before anything is written.
handle_move_raises(logic, column) ==
    get_first_empty_square_in_column(logic.current_squares, column) = None

\* A variant that never passes the turn.
handle_move_keeping_turn(logic, column) ==
    LET actual_square == get_first_empty_square_in_column(logic.current_squares, column)
        placed == place_piece(logic.current_squares, actual_square, logic.current_player.id)
        winning == detect_win(placed, logic.current_player, actual_square)
        moved == [logic EXCEPT !.current_squares = placed]
    IN  IF actual_square = None THEN logic
        ELSE IF winning = None THEN moved
        ELSE [moved EXCEPT !.has_winner = TRUE, !.winning_coordinates = winning]

\* A variant that passes the turn after a winning move as well.
handle_move_always_switching(logic, column) ==
    LET actual_square == get_first_empty_square_in_column(logic.current_squares, column)
        placed == place_piece(logic.current_squares, actual_square, logic.current_player.id)
        winning == detect_win(placed, logic.current_player, actual_square)
        moved == [logic EXCEPT !.current_squares = placed]
    IN  IF actual_square = None THEN logic
        ELSE IF winning = None THEN switch_to_next_player(moved)
        ELSE switch_to_next_player([moved EXCEPT !.has_winner = TRUE, !.winning_coordinates = winning])

\* A variant that passes the turn when the column is full.
handle_move_passing_turn_on_full_column(logic, column) ==
    LET actual_square == get_first_empty_square_in_column(logic.current_squares, column)
        placed == place_piece(logic.current_squares, actual_square, logic.current_player.id)
        winning == detect_win(placed, logic.current_player, actual_square)
        moved == [logic EXCEPT !.current_squares = placed]
    IN  IF actual_square = None THEN switch_to_next_player(logic)
        ELSE IF winning = None THEN switch_to_next_player(moved)
        ELSE [moved EXCEPT !.has_winner = TRUE, !.winning_coordinates = winning]

\* A variant that does nothing once the game is won.
handle_move_revalidating(logic, column) ==
    LET actual_square == get_first_empty_square_in_column(logic.current_squares, column)
        placed == place_piece(logic.current_squares, actual_square, logic.current_player.id)
        winning == detect_win(placed, logic.current_player, actual_square)
        moved == [logic EXCEPT !.current_squares = placed]
    IN  IF actual_square = None \/ logic.has_winner THEN logic
        ELSE IF winning = None THEN switch_to_next_player(moved)
        ELSE [moved EXCEPT !.has_winner = TRUE, !.winning_coordinates = winning]

handle_move(logic, column) ==
    LET actual_square == get_first_empty_square_in_column(logic.current_squares, column)
        placed == place_piece(logic.current_squares, actual_square, logic.current_player.id)
        winning == detect_win(placed, logic.current_player, actual_square)
        moved == [logic EXCEPT !.current_squares = placed]
    IN  IF actual_square = None THEN logic
        ELSE IF winning = None THEN switch_to_next_player(moved)
        ELSE [moved EXCEPT !.has_winner = TRUE, !.winning_coordinates = winning]

(***************************************************************************)
(* The games played.  A game follows one of the scripts of Games, the      *)
(* games of the repository's tests, their mirror images and a drawn game,  *)
(* and may depart from it by at most MaxFree moves in any columns.         *)
(***************************************************************************)
\* for _ in range(BOARD_ROWS): logic.handle_move(column)
FillColumn(column) == [i \in 1 .. BOARD_ROWS |-> column]

test_row_win_detection == << 0, 0, 1, 1, 2, 2, 3 >>
test_column_win_detection == << 0, 1, 0, 1, 0, 1, 0 >>
test_ascending_diagonal_win_detection == << 2, 0, 3, 1, 2, 1, 3, 2, 3, 3 >>
test_descending_diagonal_win_detection == << 0, 2, 1, 3, 0, 2, 1, 1, 0, 0 >>
test_check_for_win_in_row == << 3, 0, 2, 1, 5, 6, 4 >>
test_check_for_win_in_column == << 2, 1, 2, 1, 2, 1, 2 >>

\* A game that fills the board without a line of four.
DrawnGame ==
    << 0, 0, 0, 0, 0, 0, 1, 1, 1, 1, 1, 1, 4, 2, 2, 2, 2, 2, 2, 3, 3,
       3, 3, 3, 3, 4, 4, 4, 4, 4, 5, 5, 5, 5, 5, 6, 6, 6, 6, 6, 6, 5 >>

\* A game that fills column 0 and is then won by its first player in column 1.
WonGameWithFullColumn == << 0, 0, 0, 0, 0, 0, 1, 2, 1, 2, 1, 2, 1 >>

\* Games won by a move that completes lines in two directions at once.
RowAndColumnGame ==
    << 3, 0, 3, 0, 3, 0, 0, 1, 6, 1, 6, 1, 1, 2, 6, 2, 5, 2, 2, 6, 3 >>
RowAndAscendingGame ==
    << 0, 0, 6, 0, 0, 1, 1, 1, 1, 2, 6, 2, 2, 3, 2, 3, 6, 3, 3 >>
ColumnAndAscendingGame == << 0, 1, 1, 2, 3, 2, 2, 6, 3, 6, 3, 6, 3 >>
AscendingAndDescendingGame ==
    << 1, 0, 2, 1, 2, 2, 4, 3, 3, 6, 4, 4, 5, 5, 3, 3 >>

\* A game won by the move that fills the gap of the row 111_111.
LongRowGame == << 0, 0, 1, 1, 2, 2, 4, 4, 5, 5, 6, 6, 3 >>

\* A game won by its second player in column 0, above a piece of the first.
ColumnWinAboveBottomRow == << 0, 0, 1, 0, 1, 0, 2, 0 >>

Mirror(moves) == [i \in 1 .. Len(moves) |-> (BOARD_COLUMNS - 1) - moves[i]]

Games ==
    [i \in 1 .. BOARD_COLUMNS |-> FillColumn(i - 1)] \o
    << test_row_win_detection,
       test_column_win_detection,
       test_ascending_diagonal_win_detection,
       test_descending_diagonal_win_detection,
       test_check_for_win_in_row,
       test_check_for_win_in_column,
       Mirror(test_row_win_detection),
       Mirror(test_ascending_diagonal_win_detection),
       Mirror(test_descending_diagonal_win_detection),
       WonGameWithFullColumn,
       DrawnGame,
       RowAndColumnGame,
       RowAndAscendingGame,
       Mirror(RowAndAscendingGame),
       ColumnAndAscendingGame,
       Mirror(ColumnAndAscendingGame),
       AscendingAndDescendingGame,
       LongRowGame,
       ColumnWinAboveBottomRow >>

\* Whether the list p is a prefix of the list s.
IsPrefix(p, s) == Len(p) <= Len(s) /\ \A i \in 1 .. Len(p) : p[i] = s[i]

\* Whether the game followed a script so far and this column is a next move
\* of such a script.
FollowsScript(column) ==
    /\ free = 0
    /\ \E g \in 1 .. Len(Games) :
          /\ Len(script) < Len(Games[g])
          /\ Games[g][Len(script) + 1] = column
          /\ IsPrefix(script, Games[g])

\* The caller chooses this column: the next move of a script, or a departure.
Chooses(column) ==
    /\ chosen' = column
    /\ IF FollowsScript(column)
       THEN /\ script' = script \o << column >>
            /\ free' = free
       ELSE /\ free < MaxFree
            /\ script' = << >>
            /\ free' = free + 1

\* The caller starts a new game.
StartsOver ==
    /\ chosen' = -1
    /\ script' = << >>
    /\ free' = 0

\* No function is being called.
NoCall == [function |-> "", arguments |-> << >>, returned |-> FALSE, result |-> << >>]

Init ==
    /\ current_squares = Logic_init.current_squares
    /\ players = Logic_init.players
    /\ current_player = Logic_init.current_player
    /\ has_winner = Logic_init.has_winner
    /\ winning_coordinates = Logic_init.winning_coordinates
    /\ script = << >>
    /\ free = 0
    /\ chosen = -1
    /\ other_logic = Logic_init
    /\ call = NoCall
    /\ buttons = create_board

(***************************************************************************)
(* Spec: the engine used as its contract asks, every handle_move preceded  *)
(* by an is_valid_move that returned True, and reset_game at any time.     *)
(***************************************************************************)
ValidMove(column) ==
    /\ Chooses(column)
    /\ is_valid_move(current_squares, has_winner, column)
    /\ Becomes(handle_move(Self, column))
    /\ UNCHANGED << other_logic, call, buttons >>

ResetGame ==
    /\ StartsOver
    /\ Becomes(reset_game(Self))
    /\ UNCHANGED << other_logic, call, buttons >>

Next ==
    \/ \E column \in Columns : ValidMove(column)
    \/ ResetGame

Spec == Init /\ [][Next]_vars

(***************************************************************************)
(* SpecGui: the engine driven by Graphics, a click on a button of a        *)
(* column handled by play and the New Game command by reset_board.         *)
(***************************************************************************)
\* A variant that passes the turn once more after every move.
play_switching_every_move(logic, clicked_column) ==
    LET moved == handle_move(logic, clicked_column)
    IN  IF is_tied(moved.current_squares, moved.has_winner) THEN switch_to_next_player(moved)
        ELSE IF moved.has_winner THEN switch_to_next_player(moved)
        ELSE switch_to_next_player(moved)

\* A variant that leaves the rotation alone after a tie.
play_without_switch_on_tie(logic, clicked_column) ==
    LET moved == handle_move(logic, clicked_column)
    IN  IF is_tied(moved.current_squares, moved.has_winner) THEN moved
        ELSE IF moved.has_winner THEN switch_to_next_player(moved)
        ELSE moved

\* The Logic instance after play has handled a click that is a valid move.
play(logic, clicked_column) ==
    LET moved == handle_move(logic, clicked_column)
    IN  IF is_tied(moved.current_squares, moved.has_winner) THEN switch_to_next_player(moved)
        ELSE IF moved.has_winner THEN switch_to_next_player(moved)
        ELSE moved

\* A variant without the return on an invalid move.
Play_without_return(clicked_column) ==
    /\ Chooses(clicked_column)
    /\ Becomes(play(Self, clicked_column))
    /\ UNCHANGED << other_logic, call, buttons >>

Play(clicked_column) ==
    IF ~is_valid_move(current_squares, has_winner, clicked_column)
    THEN UNCHANGED vars
    ELSE /\ Chooses(clicked_column)
         /\ Becomes(play(Self, clicked_column))
         /\ UNCHANGED << other_logic, call, buttons >>

ResetBoard ==
    /\ StartsOver
    /\ Becomes(reset_game(Self))
    /\ UNCHANGED << other_logic, call, buttons >>

NextGui ==
    \/ \E clicked_column \in Columns : Play(clicked_column)
    \/ ResetBoard

SpecGui == Init /\ [][NextGui]_vars

(***************************************************************************)
(* SpecCalls: single calls of the functions that read no Logic instance,   *)
(* the constructor of Player and the derivation of the diagonal through a  *)
(* square, on every argument of a bounded set.                             *)
(***************************************************************************)
Colours == { "blue", "red" }

Calling(function, arguments) ==
    [function |-> function, arguments |-> arguments, returned |-> FALSE, result |-> << >>]

InitCalls ==
    /\ current_squares = Logic_init.current_squares
    /\ players = Logic_init.players
    /\ current_player = Logic_init.current_player
    /\ has_winner = Logic_init.has_winner
    /\ winning_coordinates = Logic_init.winning_coordinates
    /\ script = << >>
    /\ free = 0
    /\ chosen = -1
    /\ other_logic = Logic_init
    /\ call \in { Calling("Player", << id, colour >>) : id \in (0 - MaxId) .. MaxId, colour \in Colours }
              \cup { Calling("ascending_diagonal", << rc[1], rc[2] >>) : rc \in Rows \X Columns }
              \cup { Calling("descending_diagonal", << rc[1], rc[2] >>) : rc \in Rows \X Columns }
    /\ buttons = create_board

Returns(result) ==
    /\ ~call.returned
    /\ call' = [call EXCEPT !.returned = TRUE, !.result = result]
    /\ UNCHANGED << logic_vars, script, free, chosen, other_logic, buttons >>

\* Player(id, colour)
ConstructPlayer ==
    /\ call.function = "Player"
    /\ Returns(Player(call.arguments[1], call.arguments[2]))

\* The start, the length and the indices read by the scan of the ascending
\* diagonal of the square (row, column).
AscendingDiagonal ==
    /\ call.function = "ascending_diagonal"
    /\ LET start == get_ascending_diagonal_start_coordinates(call.arguments[1], call.arguments[2])
       IN  Returns([start |-> start,
                    length |-> ascending_diagonal_length(start),
                    indices |-> ascending_diagonal_indices(start)])

\* The same of the descending diagonal.
DescendingDiagonal ==
    /\ call.function = "descending_diagonal"
    /\ LET start == get_descending_diagonal_start_coordinates(call.arguments[1], call.arguments[2])
       IN  Returns([start |-> start,
                    length |-> descending_diagonal_length(start),
                    indices |-> descending_diagonal_indices(start)])

NextCalls ==
    \/ ConstructPlayer
    \/ AscendingDiagonal
    \/ DescendingDiagonal

SpecCalls == InitCalls /\ [][NextCalls]_vars

(***************************************************************************)
(* Vocabulary of the properties, independent of the scans above.           *)
(***************************************************************************)
\* Row, column, ascending diagonal, descending diagonal.
Directions == { << 0, 1 >>, << 1, 0 >>, << 1, 1 >>, << -1, 1 >> }

OnBoard(rc) == rc[1] \in Rows /\ rc[2] \in Columns

\* The k-th (from 0) coordinate from rc in direction d.
Step(rc, d, k) == << rc[1] + k * d[1], rc[2] + k * d[2] >>

\* The lines of the board: every list of 4 consecutive coordinates along a
\* direction that lies on the board.
Lines ==
    { [k \in 1 .. 4 |-> Step(x[1], x[2], k - 1)] :
        x \in { y \in (Rows \X Columns) \X Directions : OnBoard(Step(y[1], y[2], 3)) } }

Owner(squares, rc) == squares[rc[1]][rc[2]]

HasLineOf(squares, id) ==
    \E line \in Lines : \A k \in 1 .. 4 : Owner(squares, line[k]) = id

HasLine(squares) ==
    \E line \in Lines :
        /\ Owner(squares, line[1]) # NO_ID
        /\ \A k \in 2 .. 4 : Owner(squares, line[k]) = Owner(squares, line[1])

\* coordinates is a list of 4 consecutive board coordinates along one
\* direction, all holding id.
IsLineOf(squares, coordinates, id) ==
    /\ Len(coordinates) = 4
    /\ \A k \in 1 .. 4 : OnBoard(coordinates[k]) /\ squares[coordinates[k][1]][coordinates[k][2]] = id
    /\ \E d \in Directions, s \in {1, -1} :
          \A k \in 1 .. 4 : coordinates[k] = Step(coordinates[1], d, s * (k - 1))

ColumnHasEmptySquare(squares, column) == \E row \in Rows : squares[row][column] = NO_ID

\* The lowest row of the column that is empty (the column has one).
LowestEmptyRow(squares, column) ==
    CHOOSE row \in Rows :
        /\ squares[row][column] = NO_ID
        /\ \A below \in Rows : below < row => squares[below][column] # NO_ID

BoardIsFull(squares) == \A column \in Columns : ~ColumnHasEmptySquare(squares, column)

\* The player of PLAYERS that is not this one.
OtherPlayer(player) == CHOOSE other \in { PLAYERS[i] : i \in 1 .. Len(PLAYERS) } : other # player

(***************************************************************************)
(* Properties.                                                             *)
(***************************************************************************)
\* C1 (Spec): no missed win.  In every state reached by reset_game and by
\* handle_move calls that followed a true is_valid_move, if has_winner is
\* false the board has no four consecutive squares of one player in a row,
\* a column, an ascending or a descending diagonal.
C1_NoMissedWin == ~has_winner => ~HasLine(current_squares)

Pieces(squares) ==
    Cardinality({ rc \in Rows \X Columns : squares[rc[1]][rc[2]] # NO_ID })

\* The whole board has been filled and no winner was ever reported.
C1_Witness ==
    /\ ~has_winner
    /\ BoardIsFull(current_squares)
    /\ winning_coordinates = << >>

\* C2 (Spec): no false win.  Whenever has_winner is true, winning_coordinates
\* is 4 coordinates on the board, consecutive along one row, column or
\* diagonal, whose squares all hold the id of the player who made the last
\* move: the step that sets has_winner leaves such a line of the player who
\* moved, and no later step changes the board or the coordinates while
\* has_winner stays true.
C2_NoFalseWin ==
    [][ has_winner' =>
          IF has_winner
          THEN UNCHANGED << current_squares, winning_coordinates >>
          ELSE IsLineOf(current_squares', winning_coordinates', current_player.id) ]_vars

\* A win on a descending diagonal has been reported.
C2_Witness ==
    /\ has_winner
    /\ Len(winning_coordinates) = 4
    /\ winning_coordinates[2] = Step(winning_coordinates[1], << -1, 1 >>, 1)

\* C3 (Spec): handle_move on a valid move writes current_player.id into the
\* lowest empty square of the column and changes no other square.
C3_PlacesInLowestEmptySquare ==
    [][ \A column \in Columns :
          ValidMove(column) =>
            current_squares' =
              [current_squares EXCEPT
                 ![LowestEmptyRow(current_squares, column)][column] = current_player.id] ]_vars

\* A piece lies on top of three others, next to an empty column.
C3_Witness ==
    \E column \in Columns :
        /\ current_squares[3][column] # NO_ID
        /\ current_squares[4][column] = NO_ID
        /\ \E empty \in Columns : current_squares[0][empty] = NO_ID

\* C4 (Spec): a handle_move after which the board has no line of four makes
\* the other player current and leaves has_winner false and
\* winning_coordinates empty, the move into the last empty square included.
C4_NoWinAdvancesPlayer ==
    [][ \A column \in Columns :
          ValidMove(column) /\ ~HasLineOf(current_squares', current_player.id) =>
            /\ current_player' = OtherPlayer(current_player)
            /\ has_winner' = FALSE
            /\ winning_coordinates' = << >> ]_vars

\* The last empty square was filled by player 2 without a win, and it is
\* player 1's turn.
C4_Witness ==
    /\ BoardIsFull(current_squares)
    /\ ~has_winner
    /\ current_squares[BOARD_ROWS - 1][5] = 2
    /\ current_player.id = 1

\* C5 (Spec): a handle_move that completes a line of four sets has_winner,
\* sets winning_coordinates to 4 coordinates of a line of the player who
\* moved, and leaves current_player and the rotation where they were.
C5_WinKeepsPlayer ==
    [][ \A column \in Columns :
          ValidMove(column) /\ HasLineOf(current_squares', current_player.id) =>
            /\ has_winner' = TRUE
            /\ IsLineOf(current_squares', winning_coordinates', current_player.id)
            /\ current_player' = current_player
            /\ players' = players ]_vars

\* Player 2 has won and is still the current player.
C5_Witness ==
    /\ has_winner
    /\ current_player.id = 2
    /\ IsLineOf(current_squares, winning_coordinates, 2)

\* C6 (SpecGui): in every state of the engine driven by play and
\* reset_board in which has_winner is true, current_player is the winner,
\* the player whose id is in the squares at winning_coordinates.
C6_CurrentPlayerIsWinner ==
    has_winner =>
        \A k \in 1 .. Len(winning_coordinates) :
            Owner(current_squares, winning_coordinates[k]) = current_player.id

\* C7 (Spec): for every column, is_valid_move is true exactly when the
\* column has an empty square and has_winner is false.
C7_ValidMoveIffEmptySquareAndNoWinner ==
    \A column \in Columns :
        is_valid_move(current_squares, has_winner, column)
            <=> (ColumnHasEmptySquare(current_squares, column) /\ ~has_winner)

\* A won game in which one column is full and another is not.
C7_Witness ==
    /\ has_winner
    /\ \E column \in Columns : ~ColumnHasEmptySquare(current_squares, column)
    /\ \E column \in Columns : ColumnHasEmptySquare(current_squares, column)

\* C8 (Spec): for every column, get_first_empty_square_in_column returns the
\* empty square of the column with the smallest row, and None exactly when
\* the column has no empty square.  (It is a function of the board alone and
\* assigns nothing.)
C8_FirstEmptySquareIsLowest ==
    \A column \in Columns :
        get_first_empty_square_in_column(current_squares, column) =
            IF ColumnHasEmptySquare(current_squares, column)
            THEN Square(LowestEmptyRow(current_squares, column), column, NO_ID)
            ELSE None

\* One column is full and another holds exactly three pieces.
C8_Witness ==
    /\ \E column \in Columns : ~ColumnHasEmptySquare(current_squares, column)
    /\ \E column \in Columns :
          current_squares[2][column] # NO_ID /\ current_squares[3][column] = NO_ID

\* The pieces of the board are exactly the k lowest squares of the column.
OnlyColumn(squares, column, k) ==
    \A rc \in Rows \X Columns :
        (squares[rc[1]][rc[2]] # NO_ID) <=> (rc[2] = column /\ rc[1] < k)

\* C9 (Spec): for every column, in a game that so far is k handle_move calls
\* on that column and nothing else, no winner is reported; while k <
\* BOARD_ROWS the first empty square of the column is the empty square
\* (k, column); after BOARD_ROWS calls the lookup returns None and
\* is_valid_move is false.
C9_FillingOneColumn ==
    \A column \in Columns : \A k \in 0 .. BOARD_ROWS :
        OnlyColumn(current_squares, column, k) =>
            /\ ~has_winner
            /\ k < BOARD_ROWS =>
                 get_first_empty_square_in_column(current_squares, column) = Square(k, column, NO_ID)
            /\ k = BOARD_ROWS =>
                 /\ get_first_empty_square_in_column(current_squares, column) = None
                 /\ ~is_valid_move(current_squares, has_winner, column)

\* The last column has been filled, and nothing else has been played.
C9_Witness == OnlyColumn(current_squares, BOARD_COLUMNS - 1, BOARD_ROWS)

\* C10 (Spec): is_tied() is true exactly when has_winner is false and the
\* top row has no empty square; in particular it is true, with has_winner
\* false, once the whole board was filled without a win.
C10_TiedIffNoWinnerAndTopRowFull ==
    /\ is_tied(current_squares, has_winner)
         <=> (/\ ~has_winner
              /\ \A column \in Columns : current_squares[BOARD_ROWS - 1][column] # NO_ID)
    /\ BoardIsFull(current_squares) /\ winning_coordinates = << >>
         => is_tied(current_squares, has_winner) /\ ~has_winner

\* The board is full and the game is tied.
C10_Witness ==
    /\ is_tied(current_squares, has_winner)
    /\ Pieces(current_squares) = BOARD_ROWS * BOARD_COLUMNS

\* C11 (Spec): gravity.  In every reachable state every occupied square
\* above the bottom row has an occupied square directly below it; hence
\* whenever the top row has no empty square, the board has none.
C11_Gravity ==
    /\ \A rc \in (Rows \ {0}) \X Columns :
          Owner(current_squares, rc) # NO_ID =>
              Owner(current_squares, << rc[1] - 1, rc[2] >>) # NO_ID
    /\ (\A column \in Columns : current_squares[BOARD_ROWS - 1][column] # NO_ID)
          => BoardIsFull(current_squares)

\* The top row has no empty square, with pieces stacked below it.
C11_Witness ==
    /\ \A column \in Columns : current_squares[BOARD_ROWS - 1][column] # NO_ID
    /\ \A column \in Columns : current_squares[0][column] # NO_ID

\* The square a piece put in this column lands in.
Landing(column) == << LowestEmptyRow(current_squares, column), column >>

\* The offsets k such that the 4 squares from the k-th square after rc in
\* direction d are on the board and all hold id.
RunStarts(squares, id, rc, d) ==
    { k \in (0 - BOARD_COLUMNS) .. BOARD_COLUMNS :
        \A j \in 0 .. 3 :
            /\ OnBoard(Step(rc, d, k + j))
            /\ Owner(squares, Step(rc, d, k + j)) = id }

HasRun(squares, id, rc, d) == RunStarts(squares, id, rc, d) # {}

MinOf(S) == CHOOSE x \in S : \A y \in S : x <= y

\* The 4 squares of id on the line through rc in direction d that are
\* nearest the end of the line the direction starts from.
FirstRun(squares, id, rc, d) ==
    [j \in 1 .. 4 |-> Step(rc, d, MinOf(RunStarts(squares, id, rc, d)) + (j - 1))]

\* Row, column, ascending diagonal, descending diagonal.
ScanOrder == << << 0, 1 >>, << 1, 0 >>, << 1, 1 >>, << -1, 1 >> >>

\* C12 (Spec): when the piece placed by a valid move completes lines of its
\* player in more than one direction at once, winning_coordinates is the
\* line in the first of these directions in the order row, column,
\* ascending diagonal, descending diagonal; with a row line and a column
\* line it is the 4 coordinates of the row.
C12_FirstDirectionReported ==
    [][ \A column \in Columns :
          ValidMove(column) =>
            LET completed ==
                    { i \in 1 .. 4 :
                        HasRun(current_squares', current_player.id, Landing(column), ScanOrder[i]) }
            IN  Cardinality(completed) > 1 =>
                  /\ has_winner'
                  /\ winning_coordinates' =
                        FirstRun(current_squares', current_player.id, Landing(column),
                                 ScanOrder[MinOf(completed)]) ]_vars

\* A row is reported whose square in the column chosen last is also the
\* top of four squares of the winner in that column.
C12_Witness ==
    /\ has_winner
    /\ winning_coordinates[2] = Step(winning_coordinates[1], << 0, 1 >>, 1)
    /\ \E k \in 1 .. 4 :
          /\ winning_coordinates[k][2] = chosen
          /\ winning_coordinates[k][1] >= 3
          /\ \A j \in 1 .. 3 :
                Owner(current_squares, Step(winning_coordinates[k], << -1, 0 >>, j))
                    = Owner(current_squares, winning_coordinates[k])

\* C13 (Spec): row win.  For every valid move landing at (r, c), the row
\* scan reports a win exactly when row r holds four consecutive squares of
\* the player who moved; handle_move then sets has_winner and
\* winning_coordinates = [(r,s), (r,s+1), (r,s+2), (r,s+3)], s the smallest
\* start column of such a run.
C13_RowWin ==
    [][ \A column \in Columns :
          ValidMove(column) =>
            LET id == current_player.id
                r == Landing(column)[1]
                starts ==
                    { s \in 0 .. BOARD_COLUMNS - COMBINATION_LENGTH :
                        \A k \in 0 .. COMBINATION_LENGTH - 1 : current_squares'[r][s + k] = id }
            IN  /\ (detect_win_in_row(current_squares', current_player, r) # None)
                      <=> (starts # {})
                /\ starts # {} =>
                      /\ has_winner'
                      /\ winning_coordinates' =
                            [k \in 1 .. COMBINATION_LENGTH |-> << r, MinOf(starts) + (k - 1) >>] ]_vars

\* A row that does not start in column 0 has been reported.
C13_Witness ==
    /\ has_winner
    /\ winning_coordinates[1][2] > 0
    /\ \A k \in 1 .. 4 : winning_coordinates[k] = Step(winning_coordinates[1], << 0, 1 >>, k - 1)

\* C14 (Spec): column win.  For every valid move landing at (r, c) that
\* completes no row line, the column scan reports a win exactly when column
\* c holds four consecutive squares of the player who moved; handle_move
\* then sets has_winner and winning_coordinates = [(s,c), (s+1,c), (s+2,c),
\* (s+3,c)], s the smallest start row of such a run.
C14_ColumnWin ==
    [][ \A column \in Columns :
          ValidMove(column)
            /\ ~HasRun(current_squares', current_player.id, Landing(column), << 0, 1 >>) =>
            LET id == current_player.id
                starts ==
                    { s \in 0 .. BOARD_ROWS - COMBINATION_LENGTH :
                        \A k \in 0 .. COMBINATION_LENGTH - 1 : current_squares'[s + k][column] = id }
            IN  /\ (check_for_win_in_column(current_squares', current_player, column) # None)
                      <=> (starts # {})
                /\ starts # {} =>
                      /\ has_winner'
                      /\ winning_coordinates' =
                            [k \in 1 .. COMBINATION_LENGTH |-> << MinOf(starts) + (k - 1), column >>] ]_vars

\* A column that does not start in the bottom row has been reported.
C14_Witness ==
    /\ has_winner
    /\ winning_coordinates[1][1] > 0
    /\ \A k \in 1 .. 4 : winning_coordinates[k] = Step(winning_coordinates[1], << 1, 0 >>, k - 1)

\* C15 (Spec): ascending diagonal win.  For every valid move landing at
\* (r, c) that completes no row line and no column line, if the ascending
\* diagonal through (r, c) holds four consecutive squares of the player who
\* moved, handle_move sets has_winner and winning_coordinates is exactly
\* these 4 squares, row and column both increasing.
C15_AscendingDiagonalWin ==
    [][ \A column \in Columns :
          ( /\ ValidMove(column)
            /\ ~HasRun(current_squares', current_player.id, Landing(column), << 0, 1 >>)
            /\ ~HasRun(current_squares', current_player.id, Landing(column), << 1, 0 >>)
            /\ HasRun(current_squares', current_player.id, Landing(column), << 1, 1 >>) ) =>
            /\ has_winner'
            /\ winning_coordinates' =
                  FirstRun(current_squares', current_player.id, Landing(column), << 1, 1 >>)
            /\ \A k \in 1 .. 3 :
                  /\ winning_coordinates'[k + 1][1] = winning_coordinates'[k][1] + 1
                  /\ winning_coordinates'[k + 1][2] = winning_coordinates'[k][2] + 1 ]_vars

\* An ascending diagonal that does not start in column 0 has been reported.
C15_Witness ==
    /\ has_winner
    /\ winning_coordinates[1][2] > 0
    /\ \A k \in 1 .. 4 : winning_coordinates[k] = Step(winning_coordinates[1], << 1, 1 >>, k - 1)

\* C16 (Spec): descending diagonal win.  For every valid move landing at
\* (r, c) that completes no row, column or ascending diagonal line, if the
\* descending diagonal through (r, c) holds four consecutive squares of the
\* player who moved, handle_move sets has_winner and winning_coordinates is
\* exactly these 4 squares, row decreasing and column increasing.
C16_DescendingDiagonalWin ==
    [][ \A column \in Columns :
          ( /\ ValidMove(column)
            /\ ~HasRun(current_squares', current_player.id, Landing(column), << 0, 1 >>)
            /\ ~HasRun(current_squares', current_player.id, Landing(column), << 1, 0 >>)
            /\ ~HasRun(current_squares', current_player.id, Landing(column), << 1, 1 >>)
            /\ HasRun(current_squares', current_player.id, Landing(column), << -1, 1 >>) ) =>
            /\ has_winner'
            /\ winning_coordinates' =
                  FirstRun(current_squares', current_player.id, Landing(column), << -1, 1 >>)
            /\ \A k \in 1 .. 3 :
                  /\ winning_coordinates'[k + 1][1] = winning_coordinates'[k][1] - 1
                  /\ winning_coordinates'[k + 1][2] = winning_coordinates'[k][2] + 1 ]_vars

\* The descending diagonal (3,0), (2,1), (1,2), (0,3) has been reported.
C16_Witness ==
    /\ has_winner
    /\ winning_coordinates = << << 3, 0 >>, << 2, 1 >>, << 1, 2 >>, << 0, 3 >> >>

\* The direction from the first to the second coordinate of a list.
DirectionOf(coordinates) ==
    << coordinates[2][1] - coordinates[1][1], coordinates[2][2] - coordinates[1][2] >>

\* C17 (Spec): when the piece placed by a valid move leaves more than 4
\* consecutive squares of its player along the reported line,
\* winning_coordinates is exactly 4 coordinates, the 4 squares of the run
\* nearest the origin of the line, and no window that starts later.
C17_LongRunReportsFirstFour ==
    [][ \A column \in Columns :
          ValidMove(column) /\ has_winner' =>
            \A d \in Directions :
                ( /\ d = DirectionOf(winning_coordinates')
                  /\ Cardinality(RunStarts(current_squares', current_player.id, Landing(column), d)) > 1 ) =>
                  /\ Len(winning_coordinates') = 4
                  /\ winning_coordinates' =
                        FirstRun(current_squares', current_player.id, Landing(column), d) ]_vars

\* A line is reported and the square after its last one holds a piece of
\* the winner as well.
C17_Witness ==
    /\ has_winner
    /\ LET after == Step(winning_coordinates[4], DirectionOf(winning_coordinates), 1)
       IN  /\ OnBoard(after)
           /\ Owner(current_squares, after) = Owner(current_squares, winning_coordinates[1])

\* C18 (Spec): reset_game, in any reachable state, leaves every square of
\* the board empty, has_winner false and winning_coordinates empty, and
\* leaves current_player and the position of the rotation unchanged.
C18_ResetKeepsRotation ==
    [][ ResetGame =>
          /\ \A rc \in Rows \X Columns : Owner(current_squares', rc) = NO_ID
          /\ has_winner' = FALSE
          /\ winning_coordinates' = << >>
          /\ current_player' = current_player
          /\ players' = players ]_vars

\* A new game that player 2 is to start.
C18_Witness ==
    /\ Pieces(current_squares) = 0
    /\ ~has_winner
    /\ winning_coordinates = << >>
    /\ current_player.id = 2

\* The number of squares of the board that hold id.
PiecesOf(squares, id) ==
    Cardinality({ rc \in Rows \X Columns : Owner(squares, rc) = id })

\* The id of the player who made the first move of a won game: the winner
\* made the last move, so the winner started exactly when the winner has
\* more pieces on the board than the other player.
StarterOfWonGame ==
    LET winner == Owner(current_squares, winning_coordinates[1])
        loser == CHOOSE id \in { PLAYERS[i].id : i \in 1 .. Len(PLAYERS) } : id # winner
    IN  IF PiecesOf(current_squares, winner) > PiecesOf(current_squares, loser)
        THEN winner
        ELSE loser

\* C19 (SpecGui): after every game ended by a win, of either player, played
\* through play, the rotation has been advanced exactly once by the winning
\* click, and the game that follows reset_board is started by the player
\* who did not start the finished game.
C19_OtherPlayerStartsNextGame ==
    [][ /\ \A clicked_column \in Columns :
              (Play(clicked_column) /\ ~has_winner /\ has_winner') =>
                  players' = CycleAdvance(players, Len(PLAYERS))
        /\ (has_winner /\ ResetBoard) => current_player'.id # StarterOfWonGame ]_vars

\* C21 (SpecGui): once has_winner is true, is_valid_move is false for every
\* column, and has_winner, the board and winning_coordinates stay as they
\* are until reset_board: no click handled by play puts a piece in a game
\* that is won.
C21_WonGameIsFrozen ==
    [][ has_winner =>
          /\ \A column \in Columns : ~is_valid_move(current_squares, has_winner, column)
          /\ \/ ResetBoard
             \/ /\ has_winner'
                /\ UNCHANGED << current_squares, winning_coordinates >>
                /\ \A column \in Columns :
                      ~is_valid_move(current_squares', has_winner', column) ]_vars

\* A game won through play, every column of which still has an empty
\* square.
C21_Witness ==
    /\ has_winner
    /\ \A column \in Columns : ColumnHasEmptySquare(current_squares, column)
    /\ Owner(current_squares, winning_coordinates[1]) # current_player.id

\* C22 (Spec): every game ends.  In every reachable state is_valid_move is
\* false for all columns exactly when has_winner is true or is_tied() is
\* true; every valid move adds one piece to a board of BOARD_ROWS *
\* BOARD_COLUMNS squares, so at most that many valid moves follow a new or
\* reset board, and after that many no move is valid.
C22_EveryGameEnds ==
    /\ [] ( /\ (\A column \in Columns : ~is_valid_move(current_squares, has_winner, column))
                <=> (has_winner \/ is_tied(current_squares, has_winner))
            /\ Pieces(current_squares) = BOARD_ROWS * BOARD_COLUMNS =>
                  \A column \in Columns : ~is_valid_move(current_squares, has_winner, column) )
    /\ [][ /\ \A column \in Columns :
                ValidMove(column) =>
                    /\ Pieces(current_squares') = Pieces(current_squares) + 1
                    /\ Pieces(current_squares') <= BOARD_ROWS * BOARD_COLUMNS
           /\ ResetGame => Pieces(current_squares') = 0 ]_vars

\* The 42nd valid move of a game has been made in column 5 and no move is
\* valid any more.
C22_Witness ==
    /\ Pieces(current_squares) = BOARD_ROWS * BOARD_COLUMNS
    /\ chosen = 5
    /\ \A column \in Columns : ~is_valid_move(current_squares, has_winner, column)

\* C23 (SpecCalls): constructing a Player with an id below 1 or above 9
\* raises ValueError and yields no player; every id from 1 to 9 is accepted
\* and gives the player of that id and colour whose winning_combination is
\* the digit of the id 4 times, which never contains the "0" of an empty
\* square.
C23_PlayerIdFromOneToNine ==
    (call.function = "Player" /\ call.returned) =>
        LET id == call.arguments[1]
        IN  IF id < 1 \/ id > 9
            THEN call.result = ValueError
            ELSE /\ call.result # ValueError
                 /\ call.result.id = id
                 /\ call.result.colour = call.arguments[2]
                 /\ call.result.winning_combination =
                       [k \in 1 .. COMBINATION_LENGTH |-> DigitChars[id + 1]]
                 /\ \A k \in 1 .. COMBINATION_LENGTH :
                       << call.result.winning_combination[k] >> # Str(NO_ID)

\* The constructor has raised ValueError for the id 0.
C23_Witness ==
    /\ call.function = "Player"
    /\ call.returned
    /\ call.arguments[1] = 0
    /\ call.result = ValueError

\* C26 (SpecCalls): ascending diagonal.  For every square (r, c) of the
\* board the start is (r - k, c - k) with k = min(r, c), so that its row or
\* its column is 0, the length is min(BOARD_ROWS - start row, BOARD_COLUMNS
\* - start column), every index read is on the board, and the squares read
\* are exactly the squares of the board on the ascending diagonal through
\* (r, c), (r, c) among them.
C26_AscendingDiagonalDerivation ==
    (call.function = "ascending_diagonal" /\ call.returned) =>
        LET r == call.arguments[1]
            c == call.arguments[2]
            k == IF r < c THEN r ELSE c
            start == call.result.start
            indices == call.result.indices
            read == { indices[i] : i \in 1 .. Len(indices) }
        IN  /\ start = << r - k, c - k >>
            /\ start[1] = 0 \/ start[2] = 0
            /\ call.result.length =
                  (IF BOARD_ROWS - start[1] < BOARD_COLUMNS - start[2]
                   THEN BOARD_ROWS - start[1] ELSE BOARD_COLUMNS - start[2])
            /\ Len(indices) = call.result.length
            /\ \A rc \in read : OnBoard(rc)
            /\ read = { rc \in Rows \X Columns : rc[1] - rc[2] = r - c }
            /\ << r, c >> \in read

\* The diagonal through (5, 3) has been derived: it starts at (2, 0) and has
\* 4 squares.
C26_Witness ==
    /\ call.function = "ascending_diagonal"
    /\ call.returned
    /\ call.arguments = << 5, 3 >>
    /\ call.result.start = << 2, 0 >>
    /\ call.result.length = 4

\* C27 (SpecCalls): descending diagonal.  For every square (r, c) of the
\* board the start is (r + k, c - k) with k = min(BOARD_ROWS - 1 - r, c), so
\* that its row is BOARD_ROWS - 1 or its column is 0, the length is
\* min(start row + 1, BOARD_COLUMNS - start column), every index read is on
\* the board, and the squares read are exactly the squares of the board on
\* the descending diagonal through (r, c), (r, c) among them.
C27_DescendingDiagonalDerivation ==
    (call.function = "descending_diagonal" /\ call.returned) =>
        LET r == call.arguments[1]
            c == call.arguments[2]
            k == IF BOARD_ROWS - 1 - r < c THEN BOARD_ROWS - 1 - r ELSE c
            start == call.result.start
            indices == call.result.indices
            read == { indices[i] : i \in 1 .. Len(indices) }
        IN  /\ start = << r + k, c - k >>
            /\ start[1] = BOARD_ROWS - 1 \/ start[2] = 0
            /\ call.result.length =
                  (IF start[1] + 1 < BOARD_COLUMNS - start[2]
                   THEN start[1] + 1 ELSE BOARD_COLUMNS - start[2])
            /\ Len(indices) = call.result.length
            /\ \A rc \in read : OnBoard(rc)
            /\ read = { rc \in Rows \X Columns : rc[1] + rc[2] = r + c }
            /\ << r, c >> \in read

\* The diagonal through (2, 6) has been derived: it starts at (5, 3) and has
\* 4 squares.
C27_Witness ==
    /\ call.function = "descending_diagonal"
    /\ call.returned
    /\ call.arguments = << 2, 6 >>
    /\ call.result.start = << 5, 3 >>
    /\ call.result.length = 4

\* C24 (SpecGui): a click on a column for which is_valid_move is false, a
\* full column or any column of a won game, is ignored by play: handle_move
\* is not called, and the board, current_player, the rotation, has_winner
\* and winning_coordinates are unchanged.
C24_InvalidClickIsIgnored ==
    [][ \A clicked_column \in Columns :
          ( /\ Play(clicked_column)
            /\ ~is_valid_move(current_squares, has_winner, clicked_column) ) =>
              UNCHANGED logic_vars ]_vars

\* A game in progress in which one column is full and another is not.
C24_Witness ==
    /\ ~has_winner
    /\ \E column \in Columns : ~is_valid_move(current_squares, has_winner, column)
    /\ \E column \in Columns : is_valid_move(current_squares, has_winner, column)

(***************************************************************************)
(* SpecTwo: two Logic instances of one process.  Each is a new Logic() or  *)
(* a Logic() that has played test_column_win_detection, and is then used   *)
(* through handle_move (after a true is_valid_move), reset_game and        *)
(* switch_to_next_player, with at most MaxTwoPieces pieces on its board.   *)
(***************************************************************************)
\* logic.handle_move(column) for every column of moves, in order.
RECURSIVE Replay(_, _)
Replay(logic, moves) ==
    IF moves = << >> THEN logic
    ELSE Replay(handle_move(logic, Head(moves)), Tail(moves))

InitTwo ==
    /\ \E first \in { Logic_init, Replay(Logic_init, test_column_win_detection) } :
          /\ current_squares = first.current_squares
          /\ players = first.players
          /\ current_player = first.current_player
          /\ has_winner = first.has_winner
          /\ winning_coordinates = first.winning_coordinates
    /\ other_logic \in { Logic_init, Replay(Logic_init, test_column_win_detection) }
    /\ script = << >>
    /\ free = 0
    /\ chosen = -1
    /\ call = NoCall
    /\ buttons = create_board

MoveOnFirst(column) ==
    /\ UNCHANGED << other_logic, script, free, chosen, call, buttons >>
    /\ Pieces(current_squares) < MaxTwoPieces
    /\ is_valid_move(current_squares, has_winner, column)
    /\ Becomes(handle_move(Self, column))

ResetOnFirst ==
    /\ UNCHANGED << other_logic, script, free, chosen, call, buttons >>
    /\ Becomes(reset_game(Self))

SwitchOnFirst ==
    /\ UNCHANGED << other_logic, script, free, chosen, call, buttons >>
    /\ Becomes(switch_to_next_player(Self))

\* A variant in which the two instances iterate over one cycle of players.
MoveOnSecond_sharing_cycle(column) ==
    /\ UNCHANGED << current_squares, current_player, has_winner, winning_coordinates,
                    script, free, chosen, call, buttons >>
    /\ Pieces(other_logic.current_squares) < MaxTwoPieces
    /\ is_valid_move(other_logic.current_squares, other_logic.has_winner, column)
    /\ other_logic' = handle_move(other_logic, column)
    /\ players' = other_logic'.players

MoveOnSecond(column) ==
    /\ UNCHANGED << logic_vars, script, free, chosen, call, buttons >>
    /\ Pieces(other_logic.current_squares) < MaxTwoPieces
    /\ is_valid_move(other_logic.current_squares, other_logic.has_winner, column)
    /\ other_logic' = handle_move(other_logic, column)

ResetOnSecond ==
    /\ UNCHANGED << logic_vars, script, free, chosen, call, buttons >>
    /\ other_logic' = reset_game(other_logic)

SwitchOnSecond ==
    /\ UNCHANGED << logic_vars, script, free, chosen, call, buttons >>
    /\ other_logic' = switch_to_next_player(other_logic)

NextTwo ==
    \/ \E column \in Columns : MoveOnFirst(column)
    \/ ResetOnFirst
    \/ SwitchOnFirst
    \/ \E column \in Columns : MoveOnSecond(column)
    \/ ResetOnSecond
    \/ SwitchOnSecond

SpecTwo == InitTwo /\ [][NextTwo]_vars

HandleMove(column) ==
    /\ Chooses(column)
    /\ Becomes(handle_move(Self, column))
    /\ UNCHANGED << other_logic, call, buttons >>

NextDirect ==
    \/ \E column \in Columns : HandleMove(column)
    \/ ResetGame

SpecDirect == Init /\ [][NextDirect]_vars

\* C28 (SpecDirect): handle_move on a column with no empty square raises
\* before anything is written: the board, current_player, the rotation,
\* has_winner and winning_coordinates are as before the call.
C28_FullColumnRaisesBeforeWriting ==
    [][ \A column \in Columns :
          (HandleMove(column) /\ ~ColumnHasEmptySquare(current_squares, column)) =>
              /\ handle_move_raises(Self, column)
              /\ UNCHANGED logic_vars ]_vars

\* A seventh handle_move has been called on the only column played.
C28_Witness ==
    /\ free = 1
    /\ chosen \in Columns
    /\ OnlyColumn(current_squares, chosen, BOARD_ROWS)
    /\ ~has_winner

\* C29 (SpecDirect): handle_move does not validate.  Called on a column
\* that has an empty square while has_winner is already true, it puts
\* current_player.id in the lowest empty square of the column all the same.
C29_NoRevalidation ==
    [][ \A column \in Columns :
          ( /\ HandleMove(column)
            /\ has_winner
            /\ ColumnHasEmptySquare(current_squares, column) ) =>
              current_squares' =
                [current_squares EXCEPT
                   ![LowestEmptyRow(current_squares, column)][column] = current_player.id] ]_vars

\* The winner of a game has placed one more piece after winning it.
C29_Witness ==
    /\ has_winner
    /\ \E id \in { PLAYERS[i].id : i \in 1 .. Len(PLAYERS) } :
          /\ Owner(current_squares, winning_coordinates[1]) = id
          /\ PiecesOf(current_squares, id) = Pieces(current_squares) - PiecesOf(current_squares, id) + 2

\* The id of the player who made the first move of a game that filled the
\* board: the two players moved in turn and the board has an even number of
\* squares, so it is the player who did not make the last move, the piece on
\* top of the column chosen last.
StarterOfTiedGame ==
    LET last == Owner(current_squares, << BOARD_ROWS - 1, chosen >>)
    IN  CHOOSE id \in { PLAYERS[i].id : i \in 1 .. Len(PLAYERS) } : id # last

\* C30 (SpecGui): after a game played through play has ended in a tie, the
\* game that follows reset_board is started by the player who did not make
\* the first move of the tied game.
C30_TieSwitchesStarter ==
    [][ (is_tied(current_squares, has_winner) /\ ResetBoard) =>
            current_player'.id # StarterOfTiedGame ]_vars

\* A tied game after which the player who made its last move is current.
C30_Witness ==
    /\ is_tied(current_squares, has_winner)
    /\ Pieces(current_squares) = BOARD_ROWS * BOARD_COLUMNS
    /\ current_player.id = Owner(current_squares, << BOARD_ROWS - 1, chosen >>)

\* C31 (Spec): whenever a valid handle_move, made in a state with no winner,
\* reports a win, the 4 winning_coordinates include the square the piece
\* was just placed in, although every scan searches its whole line from the
\* line's start.
C31_WinThroughPlacedSquare ==
    [][ \A column \in Columns :
          (ValidMove(column) /\ has_winner') =>
              /\ Len(winning_coordinates') = 4
              /\ \E k \in 1 .. 4 : winning_coordinates'[k] = Landing(column) ]_vars

\* A win has been reported in which the piece placed last, the top piece of
\* the column chosen last, is not the first of the 4 coordinates.
C31_Witness ==
    /\ has_winner
    /\ winning_coordinates[1][2] # chosen
    /\ \E k \in 2 .. 4 :
          /\ winning_coordinates[k][2] = chosen
          /\ \/ winning_coordinates[k][1] = BOARD_ROWS - 1
             \/ Owner(current_squares, << winning_coordinates[k][1] + 1, chosen >>) = NO_ID

\* C32 (SpecGui): in every state reached through valid clicks and New Game,
\* the pieces of a game were placed by the two players in turn: the numbers
\* of squares held by player 1 and by player 2 differ by at most 1.  Every
\* valid click adds exactly one piece, of the current player, and passes the
\* turn unless it ends the game, and reset_board leaves no piece, so the
\* number of pieces is the number of valid moves since the last reset.
C32_PlayersAlternate ==
    /\ [] ( /\ PiecesOf(current_squares, 1) - PiecesOf(current_squares, 2) \in { -1, 0, 1 }
            /\ PiecesOf(current_squares, 1) + PiecesOf(current_squares, 2) = Pieces(current_squares) )
    /\ [][ /\ \A clicked_column \in Columns :
                ( /\ is_valid_move(current_squares, has_winner, clicked_column)
                  /\ Play(clicked_column) ) =>
                    /\ Pieces(current_squares') = Pieces(current_squares) + 1
                    /\ PiecesOf(current_squares', current_player.id)
                          = PiecesOf(current_squares, current_player.id) + 1
                    /\ (~has_winner' /\ ~is_tied(current_squares', has_winner')) =>
                          current_player' = OtherPlayer(current_player)
           /\ ResetBoard => Pieces(current_squares') = 0 ]_vars

\* Player 2 started this game and has one piece more than player 1.
C32_Witness ==
    /\ PiecesOf(current_squares, 2) = PiecesOf(current_squares, 1) + 1
    /\ PiecesOf(current_squares, 1) >= 2
    /\ ~has_winner

\* C33 (Spec): a freshly constructed engine has player 1, the first entry of
\* PLAYERS, as current_player, an all-empty board, has_winner false and no
\* winning coordinates; and the rotation has period 2: in every state one
\* advance gives the other player and two advances give the current player
\* and the rotation's position back.
C33_FreshEngineAndRotation ==
    /\ current_player = PLAYERS[1]
    /\ current_player.id = 1
    /\ \A row \in Rows : \A column \in Columns : current_squares[row][column] = NO_ID
    /\ ~has_winner
    /\ winning_coordinates = << >>
    /\ [] ( /\ switch_to_next_player(Self).current_player = OtherPlayer(current_player)
            /\ switch_to_next_player(switch_to_next_player(Self)).current_player = current_player
            /\ switch_to_next_player(switch_to_next_player(Self)).players = players )

\* Two moves after construction the turn is back with player 1.
C33_Witness ==
    /\ Pieces(current_squares) = 2
    /\ current_player = PLAYERS[1]
    /\ players = Logic_init.players
    /\ script = << 0, 1 >>

\* C35 (Spec): in every reachable state winning_coordinates is empty exactly
\* when has_winner is false; a step changes the one exactly when it changes
\* the other, and the only steps that change them are a handle_move that
\* completes a line of the mover and a reset_game of a won game.
C35_CoordinatesIffWinner ==
    /\ [] ((winning_coordinates = << >>) <=> ~has_winner)
    /\ [][ /\ (has_winner' # has_winner) <=> (winning_coordinates' # winning_coordinates)
           /\ \/ has_winner' = has_winner
              \/ /\ has_winner
                 /\ ResetGame
              \/ /\ has_winner'
                 /\ HasLineOf(current_squares', current_player.id)
                 /\ \E column \in Columns : ValidMove(column) ]_vars

\* A won game: the flag is set and the four coordinates are recorded.
C35_Witness ==
    /\ has_winner
    /\ Len(winning_coordinates) = COMBINATION_LENGTH
    /\ script = ColumnWinAboveBottomRow

(***************************************************************************)
(* SpecDisplay: the front end with its buttons observed.  A click on any   *)
(* button is handled by play, which configures the buttons and calls the   *)
(* engine; the New Game command is handled by reset_board.  The user asks  *)
(* for a new game at the points of NewGameAfter.                           *)
(***************************************************************************)
\* A variant that looks the button up with the engine's row.
get_actual_button_without_translation(logic, clicked_column) ==
    LET actual_square == get_first_empty_square_in_column(logic.current_squares, clicked_column)
    IN  IF actual_square = None THEN None
        ELSE << actual_square.row, actual_square.column >>

\* Graphics._get_actual_button: the coordinates on the grid of the button
\* for the first empty square of the clicked button's column, which is all
\* the function reads of the clicked button.
get_actual_button(logic, clicked_column) ==
    LET actual_square == get_first_empty_square_in_column(logic.current_squares, clicked_column)
    IN  IF actual_square = None THEN None
        ELSE LET actual_row == BOARD_ROWS - actual_square.row - 1
             IN  << actual_row, actual_square.column >>

\* Graphics._display_piece
display_piece(shown, button, logic) ==
    [shown EXCEPT ![button[1]][button[2]] =
        [@ EXCEPT !.text = PIECE, !.fg = logic.current_player.colour]]

\* Graphics._highlight_winning_squares
highlight_winning_squares(shown, logic) ==
    LET grid_coordinates ==
            { << BOARD_ROWS - logic.winning_coordinates[k][1] - 1, logic.winning_coordinates[k][2] >> :
                k \in 1 .. Len(logic.winning_coordinates) }
    IN  [row \in Rows |-> [column \in Columns |->
            IF << row, column >> \in grid_coordinates
            THEN [shown[row][column] EXCEPT !.default = "active",
                                            !.highlightcolor = logic.current_player.colour,
                                            !.highlightthickness = 3]
            ELSE shown[row][column]]]

\* What Graphics.play does to the buttons on a valid move: the piece is
\* displayed before handle_move is called, the winning squares are
\* highlighted after it.
play_buttons(shown, logic, clicked_column) ==
    LET actual_button == get_actual_button(logic, clicked_column)
        displayed == display_piece(shown, actual_button, logic)
        moved == handle_move(logic, clicked_column)
    IN  IF is_tied(moved.current_squares, moved.has_winner) THEN displayed
        ELSE IF moved.has_winner THEN highlight_winning_squares(displayed, moved)
        ELSE displayed

\* What Graphics.reset_board does to the buttons: default, highlightthickness
\* and text are configured, the other options are left as they are.
reset_buttons(shown) ==
    [row \in Rows |-> [column \in Columns |->
        [shown[row][column] EXCEPT !.default = "normal", !.highlightthickness = 0, !.text = ""]]]

\* The games after whose last move the user asks for a new game.
NewGameAfter ==
    { test_column_win_detection, ColumnWinAboveBottomRow, << 0, 0 >> }

\* Graphics.play on a click on a button of the column clicked_column.
Click(clicked_column) ==
    IF ~is_valid_move(current_squares, has_winner, clicked_column)
    THEN UNCHANGED vars
    ELSE /\ UNCHANGED << other_logic, call >>
         /\ Chooses(clicked_column)
         /\ buttons' = play_buttons(buttons, Self, clicked_column)
         /\ Becomes(play(Self, clicked_column))

\* Graphics.reset_board
NewGame ==
    /\ UNCHANGED << other_logic, call >>
    /\ script \in NewGameAfter
    /\ StartsOver
    /\ Becomes(reset_game(Self))
    /\ buttons' = reset_buttons(buttons)

NextDisplay ==
    \/ \E clicked_column \in Columns : Click(clicked_column)
    \/ NewGame

SpecDisplay == Init /\ [][NextDisplay]_vars

\* The button that stands for the engine square at (row, column).
ButtonOf(row, column) == buttons[BOARD_ROWS - row - 1][column]

\* Whether a button shows a piece of this colour.
ShowsPiece(button, colour) == button.text = PIECE /\ button.fg = colour

\* C34 (SpecDisplay): after any sequence of clicks and New Game commands, the
\* button that stands for an engine square (the button of the same column
\* whose row on the grid is BOARD_ROWS - row - 1) shows a piece of a player's
\* colour if and only if the square holds that player's id.
C34_DisplayRefinesBoard ==
    \A row \in Rows : \A column \in Columns : \A i \in 1 .. Len(PLAYERS) :
        ShowsPiece(ButtonOf(row, column), PLAYERS[i].colour)
            <=> current_squares[row][column] = PLAYERS[i].id

\* A later game: a piece of player 2 is shown at the bottom of a column, on a
\* button that showed a piece of player 1 in an earlier game, while a button
\* emptied by New Game keeps the colour of its last piece.
C34_Witness ==
    /\ ShowsPiece(ButtonOf(0, 0), PLAYERS[2].colour)
    /\ current_squares[0][0] = PLAYERS[2].id
    /\ \E row \in Rows : \E column \in Columns :
          /\ ButtonOf(row, column).text = ""
          /\ ButtonOf(row, column).fg \in { PLAYERS[i].colour : i \in 1 .. Len(PLAYERS) }
          /\ current_squares[row][column] = NO_ID

====
